---- MODULE Spec2Model ----
(***************************************************************************)
(* Tic Tac Toe rules engine of tic_tac_toe_frontend/src/App.js:            *)
(* calculateWinner, the App component's state (squares, xIsNext), the      *)
(* values derived on each render, and the two handlers handleSquareClick   *)
(* and resetGame.                                                          *)
(***************************************************************************)
EXTENDS Integers, Sequences, FiniteSets, TLC

VARIABLES squares, xIsNext, result, last, scn, accepted, lastMove

vars == <<squares, xIsNext, result, last, scn, accepted, lastMove>>

(* ---------------------------------------------------------------------- *)
(* Values                                                                  *)
(* ---------------------------------------------------------------------- *)

\* the empty cell (JavaScript null, the only falsy cell value)
null == "null"

\* the number of board positions, Array(9)
BoardSize == 9

Cells == 0 .. (BoardSize - 1)

Marks == {"X", "O"}

\* every array of 9 cells, each null, "X" or "O"
AllBoards == [Cells -> Marks \cup {null}]

\* Array(9).fill(null)
EmptyBoard == [i \in Cells |-> null]

(* ---------------------------------------------------------------------- *)
(* calculateWinner                                                         *)
(* ---------------------------------------------------------------------- *)

\* scan order with the diagonals first (a misordering of the table)
linesDiagonalsFirst ==
  << <<0, 4, 8>>, <<2, 4, 6>>,
     <<0, 1, 2>>, <<3, 4, 5>>, <<6, 7, 8>>,
     <<0, 3, 6>>, <<1, 4, 7>>, <<2, 5, 8>> >>

\* const lines = [...]
lines ==
  << <<0, 1, 2>>, <<3, 4, 5>>, <<6, 7, 8>>,
     <<0, 3, 6>>, <<1, 4, 7>>, <<2, 5, 8>>,
     <<0, 4, 8>>, <<2, 4, 6>> >>

\* the test of one line with the comparison against the third cell dropped
lineMatchesTwoCells(sq, ln) ==
  /\ sq[ln[1]] # null
  /\ sq[ln[1]] = sq[ln[2]]

\* squares[a] && squares[a] === squares[b] && squares[a] === squares[c]
lineMatches(sq, ln) ==
  /\ sq[ln[1]] # null
  /\ sq[ln[1]] = sq[ln[2]]
  /\ sq[ln[1]] = sq[ln[3]]

\* return { winner: null, line: [] }
noWinner == [winner |-> null, line |-> <<>>]

\* the for loop over lines, from the k-th line on
RECURSIVE scanLines(_, _)
scanLines(sq, k) ==
  IF k > Len(lines)
    THEN noWinner
    ELSE IF lineMatches(sq, lines[k])
           THEN [winner |-> sq[lines[k][1]], line |-> lines[k]]
           ELSE scanLines(sq, k + 1)

\* the loop started one line too late
calculateWinnerSkippingFirstLine(sq) == scanLines(sq, 2)

calculateWinner(sq) == scanLines(sq, 1)

(* ---------------------------------------------------------------------- *)
(* Values derived on each render of App                                    *)
(* ---------------------------------------------------------------------- *)

\* const { winner, line: winningLine } = useMemo(...)
winner == result.winner

winningLine == result.line

\* squares.every(Boolean)
isBoardFull == \A i \in Cells : squares[i] # null

\* a draw declared on every full board, winner or not
isDrawIgnoringWinner == isBoardFull

\* !winner && isBoardFull
isDraw == winner = null /\ isBoardFull

\* the game ended by a draw only, a winner not stopping play
gameOverOnlyOnDraw == isDraw

\* Boolean(winner) || isDraw
gameOver == winner # null \/ isDraw

\* the player to move always reported as X
currentPlayerAlwaysX == "X"

\* xIsNext ? 'X' : 'O'
currentPlayer == IF xIsNext THEN "X" ELSE "O"

\* the status line naming the player to move as the winner
statusTextWinnerFromTurn ==
  IF winner # null
    THEN "Winner: " \o currentPlayer
    ELSE IF isDraw
           THEN "It's a draw!"
           ELSE "Current player: " \o currentPlayer

\* winner ? `Winner: ${winner}` : isDraw ? "It's a draw!" : `Current player: ...`
statusText ==
  IF winner # null
    THEN "Winner: " \o winner
    ELSE IF isDraw
           THEN "It's a draw!"
           ELSE "Current player: " \o currentPlayer

\* <Board disabled={Boolean(winner)} />
boardDisabled == winner # null

\* the button disabled by the board's flag alone, its value not looked at
squareDisabledIgnoringValue(i) == boardDisabled

\* Square: disabled={disabled || Boolean(value)}, value = squares[i]
squareDisabled(i) == boardDisabled \/ squares[i] # null

(* ---------------------------------------------------------------------- *)
(* Observation of the run                                                  *)
(* ---------------------------------------------------------------------- *)

\* the scenario of section 8: clicks on 0, 3, 1, 4, 2
Scenario == <<0, 3, 1, 4, 2>>

\* scn is the number of scenario clicks made so far when the clicks since
\* the start (or the last reset) are exactly a prefix of Scenario, else -1
scnAfterClick(i) ==
  IF scn >= 0 /\ scn < Len(Scenario) /\ Scenario[scn + 1] = i
    THEN scn + 1
    ELSE -1

\* accepted counts the clicks since the start (or the last reset) that got
\* past the handler's early return; lastMove is the last of them
noMove == [player |-> null, index |-> -1]

\* the interaction that led to the current state, with the state it met
event(op, i) ==
  [op |-> op, index |-> i, squares |-> squares, xIsNext |-> xIsNext]

(* ---------------------------------------------------------------------- *)
(* The game                                                                *)
(* ---------------------------------------------------------------------- *)

Init ==
  /\ squares = EmptyBoard
  /\ xIsNext = TRUE
  /\ result = calculateWinner(EmptyBoard)
  /\ last = [op |-> "init", index |-> -1,
             squares |-> EmptyBoard, xIsNext |-> TRUE]
  /\ scn = 0
  /\ accepted = 0
  /\ lastMove = noMove

\* the handler without the game-over test
handleSquareClickIgnoringGameOver(index) ==
  /\ IF squares[index] # null
       THEN UNCHANGED <<squares, xIsNext, result, accepted, lastMove>>
       ELSE /\ squares' = [squares EXCEPT ![index] = currentPlayer]
            /\ xIsNext' = ~xIsNext
            /\ result' = calculateWinner(squares')
            /\ accepted' = accepted + 1
            /\ lastMove' = [player |-> currentPlayer, index |-> index]
  /\ last' = event("click", index)
  /\ scn' = scnAfterClick(index)

\* the handler without the occupied-cell test
handleSquareClickIgnoringOccupied(index) ==
  /\ IF gameOver
       THEN UNCHANGED <<squares, xIsNext, result, accepted, lastMove>>
       ELSE /\ squares' = [squares EXCEPT ![index] = currentPlayer]
            /\ xIsNext' = ~xIsNext
            /\ result' = calculateWinner(squares')
            /\ accepted' = accepted + 1
            /\ lastMove' = [player |-> currentPlayer, index |-> index]
  /\ last' = event("click", index)
  /\ scn' = scnAfterClick(index)

\* the handler without the turn flip
handleSquareClickKeepingTurn(index) ==
  /\ IF squares[index] # null \/ gameOver
       THEN UNCHANGED <<squares, xIsNext, result, accepted, lastMove>>
       ELSE /\ squares' = [squares EXCEPT ![index] = currentPlayer]
            /\ xIsNext' = xIsNext
            /\ result' = calculateWinner(squares')
            /\ accepted' = accepted + 1
            /\ lastMove' = [player |-> currentPlayer, index |-> index]
  /\ last' = event("click", index)
  /\ scn' = scnAfterClick(index)

\* the handler storing the old board instead of the copy with the new mark
handleSquareClickDroppingMark(index) ==
  /\ IF squares[index] # null \/ gameOver
       THEN UNCHANGED <<squares, xIsNext, result, accepted, lastMove>>
       ELSE /\ squares' = squares
            /\ xIsNext' = ~xIsNext
            /\ result' = calculateWinner(squares')
            /\ accepted' = accepted + 1
            /\ lastMove' = [player |-> currentPlayer, index |-> index]
  /\ last' = event("click", index)
  /\ scn' = scnAfterClick(index)

\* a click on cell index, and the render that follows it
handleSquareClick(index) ==
  /\ IF squares[index] # null \/ gameOver
       THEN UNCHANGED <<squares, xIsNext, result, accepted, lastMove>>
       ELSE /\ squares' = [squares EXCEPT ![index] = currentPlayer]
            /\ xIsNext' = ~xIsNext
            /\ result' = calculateWinner(squares')
            /\ accepted' = accepted + 1
            /\ lastMove' = [player |-> currentPlayer, index |-> index]
  /\ last' = event("click", index)
  /\ scn' = scnAfterClick(index)

\* the reset that leaves the turn as it was
resetGameKeepingTurn ==
  /\ squares' = EmptyBoard
  /\ xIsNext' = xIsNext
  /\ result' = calculateWinner(squares')
  /\ last' = event("reset", -1)
  /\ scn' = 0
  /\ accepted' = 0
  /\ lastMove' = noMove

\* a click on "Play Again", and the render that follows it
resetGame ==
  /\ squares' = EmptyBoard
  /\ xIsNext' = TRUE
  /\ result' = calculateWinner(squares')
  /\ last' = event("reset", -1)
  /\ scn' = 0
  /\ accepted' = 0
  /\ lastMove' = noMove

SquareClick == \E index \in Cells : handleSquareClick(index)

Next == SquareClick \/ resetGame

Spec == Init /\ [][Next]_vars

\* a click that the handler accepts: on an enabled button
Move ==
  \E index \in Cells : ~squareDisabled(index) /\ handleSquareClick(index)

\* the game with the players going on to click empty cells while they can
SpecFair == Init /\ [][Next]_vars /\ WF_vars(Move)

(* ---------------------------------------------------------------------- *)
(* calculateWinner on arbitrary boards                                     *)
(* ---------------------------------------------------------------------- *)

InitEval ==
  /\ squares \in AllBoards
  /\ xIsNext = TRUE
  /\ result = noWinner
  /\ last = [op |-> "input", index |-> -1,
             squares |-> EmptyBoard, xIsNext |-> TRUE]
  /\ scn = -1
  /\ accepted = 0
  /\ lastMove = noMove

\* one call calculateWinner(squares)
Evaluate ==
  /\ last.op = "input"
  /\ result' = calculateWinner(squares)
  /\ last' = [last EXCEPT !.op = "evaluate"]
  /\ UNCHANGED <<squares, xIsNext, scn, accepted, lastMove>>

NextEval == Evaluate

SpecEval == InitEval /\ [][NextEval]_vars

(* ---------------------------------------------------------------------- *)
(* Vocabulary of the properties, stated on the board alone                 *)
(* ---------------------------------------------------------------------- *)

\* the 8 winning lines as sets of cells: 3 rows, 3 columns, 2 diagonals
WinningLines ==
  {{3 * r, 3 * r + 1, 3 * r + 2} : r \in 0 .. 2}
    \cup {{c, c + 3, c + 6} : c \in 0 .. 2}
    \cup {{0, 4, 8}, {2, 4, 6}}

HasLine(b, W) == \E l \in WinningLines : \A i \in l : b[i] = W

CompleteLines(b) ==
  {l \in WinningLines : \E W \in Marks : \A i \in l : b[i] = W}

Full(b) == \A i \in Cells : b[i] \in Marks

GameIsOver(b) == CompleteLines(b) # {} \/ Full(b)

OutcomeOf(b) ==
  IF HasLine(b, "X") THEN "X-won"
  ELSE IF HasLine(b, "O") THEN "O-won"
  ELSE IF Full(b) THEN "draw"
  ELSE "in-progress"

NumberOf(b, W) == Cardinality({i \in Cells : b[i] = W})

Other(W) == IF W = "X" THEN "O" ELSE "X"

\* the scan order as section 4.1 gives it
RowsColumnsDiagonals ==
  << <<0, 1, 2>>, <<3, 4, 5>>, <<6, 7, 8>>,
     <<0, 3, 6>>, <<1, 4, 7>>, <<2, 5, 8>>,
     <<0, 4, 8>>, <<2, 4, 6>> >>

CompleteAt(b) ==
  {k \in 1 .. 8 :
     /\ b[RowsColumnsDiagonals[k][1]] \in Marks
     /\ \A j \in 2 .. 3 :
          b[RowsColumnsDiagonals[k][j]] = b[RowsColumnsDiagonals[k][1]]}

Least(S) == CHOOSE k \in S : \A m \in S : k <= m

(* ---------------------------------------------------------------------- *)
(* Properties                                                              *)
(* ---------------------------------------------------------------------- *)

\* C1 as stated: on every board, calculateWinner returns winner W if and
\* only if some winning line has all three cells equal to W, for W = X and
\* for W = O.
C1_WinnerIffSomeLine ==
  last.op = "evaluate" =>
    \A W \in Marks : (result.winner = W) <=> HasLine(squares, W)

\* C1 amended: on every board, a returned winner W has a complete line of W,
\* a mark W that has a complete line while the other mark has none is
\* returned, and no winner is returned exactly when no line is complete.
C1_WinnerIffOnlyLine ==
  last.op = "evaluate" =>
    /\ \A W \in Marks : result.winner = W => HasLine(squares, W)
    /\ \A W \in Marks :
         HasLine(squares, W) /\ ~HasLine(squares, Other(W))
           => result.winner = W
    /\ (result.winner = null) <=> (CompleteLines(squares) = {})

C1_Witness ==
  /\ last.op = "evaluate"
  /\ result.winner = "O"
  /\ HasLine(squares, "O")
  /\ ~HasLine(squares, "X")

\* C2: once the board holds a complete line or is full, a click on any cell
\* leaves board and turn unchanged, and the outcome changes only by a reset.
C2_GameOverFrozen ==
  [][GameIsOver(squares) =>
       /\ last'.op = "click" => squares' = squares /\ xIsNext' = xIsNext
       /\ OutcomeOf(squares') # OutcomeOf(squares) => last'.op = "reset"]_vars

C2_Witness ==
  /\ last.op = "click"
  /\ HasLine(last.squares, "X")
  /\ last.squares[last.index] = null
  /\ squares = last.squares

\* C3: a click on a cell that holds X or O changes neither the board nor
\* the turn, and the status line stays one of the game's texts, the same.
C3_OccupiedIgnored ==
  [][(last'.op = "click" /\ squares[last'.index] \in Marks) =>
       /\ squares' = squares
       /\ xIsNext' = xIsNext
       /\ statusText' = statusText]_vars

C3_Witness ==
  /\ last.op = "click"
  /\ last.squares[last.index] \in Marks
  /\ ~GameIsOver(last.squares)
  /\ squares = last.squares

\* C4: a click on an empty cell of a game in progress puts the mover's mark
\* in that cell, leaves the other 8 cells as they were and flips the turn.
C4_MoveEffect ==
  [][(last'.op = "click" /\ squares[last'.index] = null
        /\ ~GameIsOver(squares)) =>
       /\ squares'[last'.index] = (IF xIsNext THEN "X" ELSE "O")
       /\ \A j \in Cells \ {last'.index} : squares'[j] = squares[j]
       /\ xIsNext' = ~xIsNext]_vars

C4_Witness ==
  /\ last.op = "click"
  /\ last.squares[last.index] = null
  /\ ~GameIsOver(last.squares)
  /\ ~last.xIsNext
  /\ squares[last.index] = "O"

\* C5: in every reachable state the number of X marks minus the number of
\* O marks is 0 or 1.
C5_CountsDifferByAtMostOne ==
  NumberOf(squares, "X") - NumberOf(squares, "O") \in {0, 1}

C5_Witness ==
  /\ NumberOf(squares, "X") = 5
  /\ NumberOf(squares, "O") = 4

\* C6: after a reset, as at the start of the game, all 9 cells are empty, X
\* is to move and the status line reads "Current player: X".
C6_ResetIsInitial ==
  last.op \in {"init", "reset"} =>
    /\ \A i \in Cells : squares[i] = null
    /\ xIsNext = TRUE
    /\ statusText = "Current player: X"

C6_Witness ==
  /\ last.op = "reset"
  /\ HasLine(last.squares, "X")
  /\ last.xIsNext = FALSE

\* C7 as stated: no reachable board has two or more complete lines.
C7_AtMostOneTriple == Cardinality(CompleteLines(squares)) <= 1

\* C7 amended: no reachable board has complete lines of both marks; the
\* complete lines, at most two, hold the mark of the last mover and pass
\* through the cell played last.
C7_NoOpposingTriples ==
  /\ ~(HasLine(squares, "X") /\ HasLine(squares, "O"))
  /\ Cardinality(CompleteLines(squares)) <= 2
  /\ CompleteLines(squares) # {} =>
       \E i \in Cells :
         /\ squares[i] = (IF xIsNext THEN "O" ELSE "X")
         /\ \A l \in CompleteLines(squares) : i \in l

C7_Witness ==
  /\ Cardinality(CompleteLines(squares)) = 2
  /\ last.op = "click"
  /\ last.squares # squares

\* C8: calculateWinner returns the first complete line in the order rows,
\* columns, diagonals, with the mark its cells hold; with no complete line
\* it returns no winner and an empty line.
C8_FirstLineInOrder ==
  last.op = "evaluate" =>
    IF CompleteAt(squares) = {}
      THEN result.winner = null /\ result.line = <<>>
      ELSE /\ result.line = RowsColumnsDiagonals[Least(CompleteAt(squares))]
           /\ result.winner \in Marks
           /\ \A j \in 1 .. 3 : squares[result.line[j]] = result.winner

C8_Witness ==
  /\ last.op = "evaluate"
  /\ Cardinality(CompleteAt(squares)) >= 2
  /\ result.line = <<0, 3, 6>>
  /\ 7 \in CompleteAt(squares)

\* C9: draw exactly when no line is complete and the board is full; in
\* progress exactly when no line is complete and a cell is empty; a full
\* board with a complete line is a win.
C9_DrawAndInProgress ==
  /\ isDraw <=> (CompleteLines(squares) = {} /\ Full(squares))
  /\ ~gameOver <=> (CompleteLines(squares) = {} /\ ~Full(squares))
  /\ (CompleteLines(squares) # {} /\ Full(squares)) =>
       winner \in Marks /\ ~isDraw

C9_Witness ==
  /\ Full(squares)
  /\ CompleteLines(squares) # {}
  /\ winner = "X"

\* C10: the clicks 0, 3, 1, 4, 2 from the initial state place X@0, O@3,
\* X@1, O@4, X@2, and then the winner is X with line [0,1,2].
C10_Scenario ==
  /\ \A k \in 1 .. Len(Scenario) :
       k <= scn => squares[Scenario[k]] = (IF k % 2 = 1 THEN "X" ELSE "O")
  /\ scn = Len(Scenario) =>
       /\ squares = [i \in Cells |->
                       IF i \in {0, 1, 2} THEN "X"
                       ELSE IF i \in {3, 4} THEN "O" ELSE null]
       /\ result = [winner |-> "X", line |-> <<0, 1, 2>>]

C10_Witness == scn = Len(Scenario)

\* C11: in every reachable state the status line is one of the five texts
\* and matches the outcome: "Winner: W" iff W has a complete line, "It's a
\* draw!" iff the board is full with no complete line, and otherwise
\* "Current player: " followed by the mark of the player to move.
C11_StatusMatchesOutcome ==
  /\ statusText \in {"Current player: X", "Current player: O",
                     "Winner: X", "Winner: O", "It's a draw!"}
  /\ \A W \in Marks : (statusText = "Winner: " \o W) <=> HasLine(squares, W)
  /\ (statusText = "It's a draw!")
       <=> (Full(squares) /\ CompleteLines(squares) = {})
  /\ \A W \in Marks :
       (statusText = "Current player: " \o W)
         <=> /\ CompleteLines(squares) = {}
             /\ ~Full(squares)
             /\ xIsNext = (W = "X")

C11_Witness ==
  /\ statusText = "Winner: O"
  /\ HasLine(squares, "O")
  /\ last.op = "click"

\* C12: each click is one transition on the state the earlier interactions
\* left: the number of marks on the board always equals the number of
\* clicks accepted since the last reset, a click step accepts at most one
\* click and adds exactly that many marks, and no click step changes or
\* removes a mark already on the board.
C12_MarksAreAcceptedClicks ==
  /\ [](NumberOf(squares, "X") + NumberOf(squares, "O") = accepted)
  /\ [][last'.op = "click" =>
          /\ accepted' - accepted \in {0, 1}
          /\ \A i \in Cells : squares[i] \in Marks => squares'[i] = squares[i]
          /\ Cardinality({i \in Cells : squares'[i] # squares[i]})
               = accepted' - accepted]_vars

C12_Witness ==
  /\ accepted = BoardSize
  /\ Full(squares)
  /\ last.op = "click"
  /\ last.squares = squares

\* C13: in every reachable state, terminal ones included, it is X's turn
\* iff the board holds as many X as O, and O's turn iff it holds exactly one
\* more X than O.
C13_TurnAgreesWithBoard ==
  /\ xIsNext <=> NumberOf(squares, "X") = NumberOf(squares, "O")
  /\ ~xIsNext <=> NumberOf(squares, "X") = NumberOf(squares, "O") + 1
  /\ (currentPlayer = "X") <=> xIsNext

C13_Witness ==
  /\ HasLine(squares, "O")
  /\ xIsNext
  /\ NumberOf(squares, "X") = NumberOf(squares, "O")

\* C14: in every reachable state with a winner, the winner made the last
\* accepted move, every complete line holds the winner's mark, the turn
\* indicator names the other player, and the board holds at least 5 marks:
\* one more X than O when X wins, as many X as O when O wins.
C14_WinnerMovedLast ==
  winner # null =>
    /\ winner \in Marks
    /\ lastMove.player = winner
    /\ squares[lastMove.index] = winner
    /\ \A l \in CompleteLines(squares) : \A i \in l : squares[i] = winner
    /\ (IF xIsNext THEN "X" ELSE "O") = Other(winner)
    /\ NumberOf(squares, "X") + NumberOf(squares, "O") >= 5
    /\ winner = "X" => NumberOf(squares, "X") = NumberOf(squares, "O") + 1
    /\ winner = "O" => NumberOf(squares, "X") = NumberOf(squares, "O")

C14_Witness ==
  /\ winner = "O"
  /\ lastMove.player = "O"
  /\ NumberOf(squares, "X") = 3
  /\ NumberOf(squares, "O") = 3

\* C15: in every reachable state and for every cell, the cell's button is
\* enabled iff the cell is empty and the game is not over, and a click on
\* the cell changes the board iff its button is enabled.
C15_EnabledIffAccepted ==
  /\ [](\A i \in Cells :
          ~squareDisabled(i) <=> (squares[i] = null /\ ~GameIsOver(squares)))
  /\ [][last'.op = "click" =>
          /\ (squares' # squares) <=> ~squareDisabled(last'.index)
          /\ (accepted' = accepted + 1) <=> ~squareDisabled(last'.index)]_vars

C15_Witness ==
  /\ last.op = "click"
  /\ last.squares = squares
  /\ squares[last.index] = null
  /\ squareDisabled(last.index)

\* C16: between resets at most 9 clicks are accepted, and when the players
\* keep clicking empty cells while the game is in progress, then unless
\* resets go on forever a terminal outcome (X-won, O-won or draw) is
\* reached and holds from then on.
C16_GameTerminates ==
  /\ [](accepted <= 9)
  /\ \/ []<>(last.op = "reset")
     \/ <>[](OutcomeOf(squares) \in {"X-won", "O-won", "draw"} /\ gameOver)

C16_Witness ==
  /\ accepted = 9
  /\ OutcomeOf(squares) = "draw"
  /\ gameOver
  /\ last.op = "click"
  /\ last.squares # squares

====
